---- MODULE Spec2Model ----
(***************************************************************************)
(* Model of social_app/urls.py: the URLconf `urlpatterns` and its          *)
(* resolution by the framework's URL resolver.                             *)
(*                                                                         *)
(* A request path (after the leading slash) is a sequence of path          *)
(* segments, each segment carrying its trailing slash ("admin/").  A route *)
(* string of the table is the sequence of its segments.  An entry built by *)
(* path(route, include(...)) (or path(route, admin.site.urls)) matches a   *)
(* path that STARTS with the route and hands the remainder to the included *)
(* table; an entry built by path(route, view) matches a path that IS the   *)
(* route.  The resolver walks the entries in list order; an included table *)
(* that has no match for the remainder makes the walk continue with the    *)
(* next entry; past the last entry the walk ends with Resolver404.         *)
(*                                                                         *)
(* The three included tables (admin.site.urls, allauth.urls,               *)
(* django.contrib.auth.urls) are defined outside urls.py: the model draws  *)
(* each of them from the sets of sub-routes in Init.                       *)
(***************************************************************************)
EXTENDS Integers, Sequences, FiniteSets, TLC

\* ---- bounds -------------------------------------------------------------
MaxRestLen == 1          \* longest part of a request path after its first segment
NumRequests == 2         \* requests resolved concurrently

\* ---- vocabulary ---------------------------------------------------------
\* first segments the table's routes name, and a segment no route names
Prefixes == {"admin/", "accounts/"}
Segments == {"login/"}

RECURSIVE SeqsUpTo(_, _)
SeqsUpTo(S, n) ==
    IF n = 0 THEN {<<>>}
    ELSE LET shorter == SeqsUpTo(S, n - 1)
         IN  shorter \cup {<<s>> \o q : s \in S, q \in {x \in shorter : Len(x) = n - 1}}

\* request paths: a sub-path, alone or under admin/ or accounts/
Rests == SeqsUpTo(Segments, MaxRestLen)
Paths == Rests \cup {<<s>> \o q : s \in Prefixes, q \in Rests}

\* sub-routes an included table may declare (each one a view entry)
SubRoutes == {<<"login/">>}

Requests == 1..NumRequests

\* ---- the table of urls.py ----------------------------------------------
urlpatterns_3 ==
    << [route |-> <<"admin/">>,    kind |-> "include", dest |-> "admin.site.urls", name |-> ""],
       [route |-> <<"accounts/">>, kind |-> "include", dest |-> "allauth.urls", name |-> ""],
       [route |-> <<>>,            kind |-> "view",    dest |-> "Home", name |-> "home"] >>

urlpatterns_swapped ==
    << [route |-> <<"admin/">>,    kind |-> "include", dest |-> "admin.site.urls", name |-> ""],
       [route |-> <<"accounts/">>, kind |-> "include", dest |-> "django.contrib.auth.urls", name |-> ""],
       [route |-> <<"accounts/">>, kind |-> "include", dest |-> "allauth.urls", name |-> ""],
       [route |-> <<>>,            kind |-> "view",    dest |-> "Home", name |-> "home"] >>

urlpatterns_literal ==
    << [route |-> <<"admin/">>,    kind |-> "include", dest |-> "admin.site.urls", name |-> ""],
       [route |-> <<"accounts/">>, kind |-> "include", dest |-> "allauth.urls", name |-> ""],
       [route |-> <<"accounts/">>, kind |-> "include", dest |-> "django.contrib.auth.urls", name |-> ""],
       [route |-> <<>>,            kind |-> "view",    dest |-> "Home", name |-> "home"] >>

IncludeNames == {"admin.site.urls", "allauth.urls", "django.contrib.auth.urls"}

VARIABLES
    urlpatterns,   \* the module-level list of urls.py
    included,      \* included[d]: the sub-routes the included table d matches
    pc,            \* pc[r]: "idle", "resolving" or "done"
    path,          \* path[r]: the path request r resolves
    idx,           \* idx[r]: the entry of urlpatterns request r examines next
    entered,       \* entered[r]: entries whose included table was handed the remainder
    result         \* result[r]: the outcome of the resolution

vars == <<urlpatterns, included, pc, path, idx, entered, result>>

\* ---- pure helpers -------------------------------------------------------
StartsWith(p, route) ==
    /\ Len(route) <= Len(p)
    /\ SubSeq(p, 1, Len(route)) = route

Remainder(p, route) == SubSeq(p, Len(route) + 1, Len(p))

\* path(route, view): the whole path must be the route
ViewMatch_prefix(p, route) == StartsWith(p, route)
ViewMatch(p, route) == p = route

\* path(route, include(...)): the path must start with the route
IncludeMatch_swapped(p, route) == StartsWith(route, p)
IncludeMatch(p, route) == StartsWith(p, route)

NoResult == [entry |-> 0, dest |-> "", sub |-> <<>>]
Resolver404 == [entry |-> 0, dest |-> "Resolver404", sub |-> <<>>]
Found(i, e, sub) == [entry |-> i, dest |-> e.dest, sub |-> sub]

\* what the walk does when an included table has no match for the remainder
SubMiss_raise == "raise"
SubMiss == "continue"

\* the next entry of the walk
Advance_skip(i) == i + 2
Advance(i) == i + 1

\* outcome of examining one entry e for path p: "hit", "continue" or "raise"
Examine(e, p) ==
    IF e.kind = "view"
    THEN IF ViewMatch(p, e.route) THEN "hit" ELSE "continue"
    ELSE IF ~IncludeMatch(p, e.route) THEN "continue"
         ELSE IF Remainder(p, e.route) \in included[e.dest] THEN "hit" ELSE SubMiss

\* ---- the state machine --------------------------------------------------
Init ==
    /\ urlpatterns = urlpatterns_literal
    /\ included \in [IncludeNames -> SUBSET SubRoutes]
    /\ pc = [r \in Requests |-> "idle"]
    /\ path = [r \in Requests |-> <<>>]
    /\ idx = [r \in Requests |-> 1]
    /\ entered = [r \in Requests |-> {}]
    /\ result = [r \in Requests |-> NoResult]

\* a request arrives and its resolution starts at the first entry
Start(r) ==
    /\ pc[r] = "idle"
    /\ \E p \in Paths : path' = [path EXCEPT ![r] = p]
    /\ pc' = [pc EXCEPT ![r] = "resolving"]
    /\ idx' = [idx EXCEPT ![r] = 1]
    /\ entered' = [entered EXCEPT ![r] = {}]
    /\ result' = [result EXCEPT ![r] = NoResult]
    /\ UNCHANGED <<urlpatterns, included>>

\* one iteration of the resolver's loop over urlpatterns
Step(r) ==
    /\ pc[r] = "resolving"
    /\ idx[r] <= Len(urlpatterns)
    /\ LET e == urlpatterns[idx[r]]
           o == Examine(e, path[r])
           handed == e.kind = "include" /\ IncludeMatch(path[r], e.route)
       IN  /\ entered' = [entered EXCEPT ![r] = IF handed THEN @ \cup {idx[r]} ELSE @]
           /\ IF o = "hit"
              THEN /\ result' = [result EXCEPT ![r] =
                           Found(idx[r], e, IF e.kind = "include"
                                            THEN Remainder(path[r], e.route) ELSE <<>>)]
                   /\ pc' = [pc EXCEPT ![r] = "done"]
                   /\ idx' = idx
              ELSE IF o = "continue"
              THEN /\ idx' = [idx EXCEPT ![r] = Advance(@)]
                   /\ UNCHANGED <<pc, result>>
              ELSE /\ result' = [result EXCEPT ![r] = Resolver404]
                   /\ pc' = [pc EXCEPT ![r] = "done"]
                   /\ idx' = idx
    /\ UNCHANGED <<urlpatterns, included, path>>

\* the loop ran past the last entry: no entry matched
Exhaust(r) ==
    /\ pc[r] = "resolving"
    /\ idx[r] > Len(urlpatterns)
    /\ result' = [result EXCEPT ![r] = Resolver404]
    /\ pc' = [pc EXCEPT ![r] = "done"]
    /\ UNCHANGED <<urlpatterns, included, path, idx, entered>>

\* the framework answers the request; the worker takes the next one
Respond(r) ==
    /\ pc[r] = "done"
    /\ pc' = [pc EXCEPT ![r] = "idle"]
    /\ path' = [path EXCEPT ![r] = <<>>]
    /\ idx' = [idx EXCEPT ![r] = 1]
    /\ entered' = [entered EXCEPT ![r] = {}]
    /\ result' = [result EXCEPT ![r] = NoResult]
    /\ UNCHANGED <<urlpatterns, included>>

Next ==
    \/ \E r \in Requests : Start(r)
    \/ \E r \in Requests : Step(r)
    \/ \E r \in Requests : Exhaust(r)
    \/ \E r \in Requests : Respond(r)

Spec == Init /\ [][Next]_vars

\* ---- reference semantics, independent of the step-wise walk --------------
\* entry e, taken alone, serves path p
Matches(e, p) ==
    IF e.kind = "view"
    THEN p = e.route
    ELSE /\ StartsWith(p, e.route)
         /\ Remainder(p, e.route) \in included[e.dest]

\* a whole resolution of p run from entry i on, with nothing interleaved
RECURSIVE ResolveFrom(_, _)
ResolveFrom(i, p) ==
    IF i > Len(urlpatterns) THEN Resolver404
    ELSE IF Matches(urlpatterns[i], p)
         THEN Found(i, urlpatterns[i],
                    IF urlpatterns[i].kind = "include"
                    THEN Remainder(p, urlpatterns[i].route) ELSE <<>>)
         ELSE ResolveFrom(i + 1, p)

EnteredDests(r) == {urlpatterns[i].dest : i \in entered[r]}

UnderAdmin(p) == StartsWith(p, <<"admin/">>)
UnderAccounts(p) == StartsWith(p, <<"accounts/">>)
AccountsRest(p) == Remainder(p, <<"accounts/">>)

Min(S) == CHOOSE m \in S : \A n \in S : m <= n

\* ---- claims -------------------------------------------------------------

\* C1: resolving the root path (the empty path) returns the Home view entry
\* (the fourth entry, named "home"); at no point of that resolution is the
\* admin table or either accounts include handed the path.
C1_RootResolvesToHome ==
    \A r \in Requests :
        (pc[r] # "idle" /\ path[r] = <<>>) =>
            /\ entered[r] = {}
            /\ pc[r] = "done" =>
                  /\ result[r].entry = 4
                  /\ result[r].dest = "Home"
                  /\ urlpatterns[result[r].entry].name = "home"

C1_Witness ==
    \E r \in Requests :
        pc[r] = "done" /\ path[r] = <<>> /\ result[r].dest = "Home"

\* C2: for a path under accounts/ whose remainder the first included table
\* (allauth.urls) matches, the second included table (django.contrib.auth.urls)
\* is never handed the remainder and the result is a destination of the first
\* table, also when the second table matches the same remainder.
C2_FirstIncludeShadowsSecond ==
    \A r \in Requests :
        (pc[r] # "idle" /\ UnderAccounts(path[r])
            /\ AccountsRest(path[r]) \in included["allauth.urls"]) =>
            /\ "django.contrib.auth.urls" \notin EnteredDests(r)
            /\ pc[r] = "done" =>
                  /\ result[r].dest = "allauth.urls"
                  /\ result[r].sub = AccountsRest(path[r])

C2_Witness ==
    \E r \in Requests :
        /\ pc[r] = "done" /\ UnderAccounts(path[r])
        /\ AccountsRest(path[r]) \in included["allauth.urls"]
        /\ AccountsRest(path[r]) \in included["django.contrib.auth.urls"]
        /\ result[r].dest = "allauth.urls"

\* C3 as stated: a finished resolution returns the first entry, in declaration
\* order, whose route is a prefix of the path, and no-match when there is none.
C3_Original_FirstPrefixWins ==
    \A r \in Requests :
        pc[r] = "done" =>
            LET M == {i \in DOMAIN urlpatterns : StartsWith(path[r], urlpatterns[i].route)}
            IN  IF M = {} THEN result[r].entry = 0 ELSE result[r].entry = Min(M)

\* C3 amended: a finished resolution returns the first entry, in declaration
\* order, that serves the path (an include entry serves a path that starts
\* with its route and whose remainder its included table matches; the view
\* entry serves the path equal to its route); every earlier entry does not
\* serve the path; the no-match result is returned only when no entry serves
\* the path and all four entries were examined.
C3_FirstServingEntryWins ==
    \A r \in Requests :
        pc[r] = "done" =>
            IF result[r].entry = 0
            THEN /\ result[r] = Resolver404
                 /\ idx[r] = Len(urlpatterns) + 1
                 /\ \A j \in DOMAIN urlpatterns : ~Matches(urlpatterns[j], path[r])
            ELSE /\ result[r].entry \in DOMAIN urlpatterns
                 /\ result[r].dest = urlpatterns[result[r].entry].dest
                 /\ Matches(urlpatterns[result[r].entry], path[r])
                 /\ \A j \in 1..(result[r].entry - 1) : ~Matches(urlpatterns[j], path[r])

\* a resolution that passed an entry whose route is a prefix of the path
C3_Witness ==
    \E r \in Requests :
        /\ pc[r] = "done"
        /\ \E j \in DOMAIN urlpatterns :
              /\ StartsWith(path[r], urlpatterns[j].route)
              /\ j # result[r].entry
              /\ (result[r].entry = 0 \/ j < result[r].entry)

\* C4 as stated: every path that begins with accounts/ resolves into the
\* table of allauth.urls, never to the admin console or the Home view.
C4_Original_AccountsIntoAllauth ==
    \A r \in Requests :
        (pc[r] = "done" /\ UnderAccounts(path[r])) => result[r].dest = "allauth.urls"

\* C4 amended: every path that begins with accounts/ is handed to allauth.urls
\* first and resolves into it exactly when it matches the remainder; otherwise
\* it resolves into django.contrib.auth.urls when that table matches the
\* remainder, and to no-match otherwise; it never resolves to, and is never
\* handed to, the admin console or the Home view.
C4_AccountsIntoAuthTables ==
    \A r \in Requests :
        (pc[r] = "done" /\ UnderAccounts(path[r])) =>
            /\ 2 \in entered[r]
            /\ "admin.site.urls" \notin EnteredDests(r)
            /\ result[r].dest \in {"allauth.urls", "django.contrib.auth.urls", "Resolver404"}
            /\ result[r].dest = "allauth.urls"
                  <=> AccountsRest(path[r]) \in included["allauth.urls"]
            /\ result[r].dest = "django.contrib.auth.urls"
                  <=> /\ AccountsRest(path[r]) \notin included["allauth.urls"]
                      /\ AccountsRest(path[r]) \in included["django.contrib.auth.urls"]

C4_Witness ==
    \E r \in Requests :
        /\ pc[r] = "done" /\ UnderAccounts(path[r])
        /\ result[r].dest = "Resolver404"
        /\ entered[r] = {2, 3}

C6_TableNeverMutated ==
    /\ Len(urlpatterns) = 4
    /\ [i \in 1..4 |-> urlpatterns[i].route]
          = <<(<<"admin/">>), (<<"accounts/">>), (<<"accounts/">>), (<<>>)>>
    /\ [i \in 1..4 |-> urlpatterns[i].dest]
          = <<"admin.site.urls", "allauth.urls", "django.contrib.auth.urls", "Home">>
    /\ [i \in 1..4 |-> urlpatterns[i].kind] = <<"include", "include", "include", "view">>
    /\ urlpatterns[4].name = "home"

\* every request has finished a resolution, with different outcomes
C6_Witness ==
    /\ \A r \in Requests : pc[r] = "done"
    /\ \E r1, r2 \in Requests : result[r1].entry = 4 /\ result[r2].entry = 3

\* C7: under every interleaving of the lookup steps of concurrent requests,
\* each request's resolution is at every step where a resolution run alone on
\* its own path would be, and finishes with the result of that lone resolution.
C7_InterleavingIndependent ==
    \A r \in Requests :
        /\ pc[r] = "resolving" =>
              ResolveFrom(idx[r], path[r]) = ResolveFrom(1, path[r])
        /\ pc[r] = "done" => result[r] = ResolveFrom(1, path[r])

\* one request finished while another, on a different path, is in mid-walk
C7_Witness ==
    \E r1, r2 \in Requests :
        /\ r1 # r2
        /\ pc[r1] = "done" /\ pc[r2] = "resolving"
        /\ idx[r2] > 1
        /\ path[r1] # path[r2]
        /\ result[r1] # ResolveFrom(1, path[r2])

\* C8: a resolution never examines more than the four entries, is never stuck,
\* and ends either with a destination of the table or with the no-match result
\* reached by running past the last entry; no entry raises on its own.
C8_NoErrorFromTable ==
    \A r \in Requests :
        /\ idx[r] \in 1..(Len(urlpatterns) + 1)
        /\ Len(urlpatterns) <= 4
        /\ pc[r] = "resolving" => ENABLED (Step(r) \/ Exhaust(r))
        /\ pc[r] = "done" =>
              \/ /\ result[r].entry \in DOMAIN urlpatterns
                 /\ result[r].dest = urlpatterns[result[r].entry].dest
              \/ /\ result[r] = Resolver404
                 /\ idx[r] = Len(urlpatterns) + 1

C8_Witness ==
    \E r \in Requests :
        /\ pc[r] = "done" /\ result[r] = Resolver404
        /\ UnderAccounts(path[r]) /\ idx[r] = 5

\* C9: for a path under accounts/ whose remainder allauth.urls does not match
\* and django.contrib.auth.urls does, the resolution goes on past the first
\* accounts/ entry and returns the destination of the second table.
C9_SecondIncludeNotDead ==
    \A r \in Requests :
        (pc[r] = "done" /\ UnderAccounts(path[r])
            /\ AccountsRest(path[r]) \notin included["allauth.urls"]
            /\ AccountsRest(path[r]) \in included["django.contrib.auth.urls"]) =>
            /\ result[r].entry = 3
            /\ result[r].dest = "django.contrib.auth.urls"
            /\ result[r].sub = AccountsRest(path[r])
            /\ entered[r] = {2, 3}

C9_Witness ==
    \E r \in Requests :
        /\ pc[r] = "done" /\ path[r] = <<"accounts/", "login/">>
        /\ included["allauth.urls"] = {}
        /\ result[r].dest = "django.contrib.auth.urls"

\* C10: every non-empty path that begins with neither admin/ nor accounts/
\* resolves to no-match, never to the Home view, and is handed to no included
\* table.
C10_RootIsNotCatchAll ==
    \A r \in Requests :
        (pc[r] = "done" /\ path[r] # <<>>
            /\ ~UnderAdmin(path[r]) /\ ~UnderAccounts(path[r])) =>
            /\ result[r] = Resolver404
            /\ result[r].dest # "Home"
            /\ entered[r] = {}

C10_Witness ==
    \E r \in Requests :
        /\ pc[r] = "done" /\ path[r] = <<"login/">>
        /\ result[r] = Resolver404
====
